---- MODULE Spec2Model ----
(***************************************************************************)
(* Rent-versus-buy calculator: the amortization formulas, the yearly       *)
(* net-worth loop and the crossover finder of calculator.ts.               *)
(*                                                                         *)
(* Every JavaScript number is modelled as an exact rational <<n, d>> in    *)
(* lowest terms with d > 0; the result of a division by zero (Infinity,    *)
(* -Infinity, NaN) is the single value NonFinite == <<0, 0>>.  Rounding of  *)
(* IEEE doubles is not modelled: the properties are those of the formulas  *)
(* in exact arithmetic.                                                    *)
(***************************************************************************)
EXTENDS Integers, Sequences, FiniteSets, TLC

VARIABLES
    pc,                  \* position of the run: calculateNetWorth, the two amortization calls, or findCrossoverYear
    inputs,              \* CalculatorInputs handed to calculateNetWorth
    years,               \* projection horizon handed to calculateNetWorth
    year,                \* loop counter of calculateNetWorth
    results,             \* YearlyData[] built by calculateNetWorth
    rentingInvestments,  \* local of calculateNetWorth
    currentMonthlyRent,  \* local of calculateNetWorth
    principal,           \* arguments of the amortization functions
    annualRate,
    termYears,
    monthsPaid,
    payment,             \* value returned by calculateMonthlyMortgage
    balance,             \* value returned by calculateMortgageBalance at monthsPaid
    prevBalance,         \* value returned at monthsPaid - 1
    data,                \* argument of findCrossoverYear; in updateChart, the records it charts
    crossover,           \* value returned by findCrossoverYear
    crossoverInfo        \* crossoverInfo.textContent, set by updateChart

vars == <<pc, inputs, years, year, results, rentingInvestments, currentMonthlyRent,
          principal, annualRate, termYears, monthsPaid, payment, balance, prevBalance,
          data, crossover, crossoverInfo>>

netWorthVars == <<inputs, years, year, results, rentingInvestments, currentMonthlyRent>>
mortgageVars == <<principal, annualRate, termYears, monthsPaid, payment, balance, prevBalance>>
crossoverVars == <<data, crossover, crossoverInfo>>

----------------------------------------------------------------------------
(* Bounds of the exploration *)

MaxYears == 3
MaxExtraMonths == 2
MaxLen == 4
MaxWorth == 2
SignificandBits == 3

----------------------------------------------------------------------------
(* Exact rational arithmetic standing for JavaScript's number type *)

Abs(n) == IF n < 0 THEN -n ELSE n

RECURSIVE GCD(_, _)
GCD(a, b) == IF b = 0 THEN a ELSE GCD(b, a % b)

NonFinite == <<0, 0>>

IsFinite(a) == a[2] # 0

Rat(n, d) ==
    IF d = 0 THEN NonFinite
    ELSE LET g == GCD(Abs(n), Abs(d))
             s == IF d < 0 THEN -1 ELSE 1
         IN  <<(s * n) \div g, Abs(d) \div g>>

R(i) == <<i, 1>>

Zero == R(0)
One == R(1)

RAdd(a, b) ==
    IF ~IsFinite(a) \/ ~IsFinite(b) THEN NonFinite
    ELSE LET g == GCD(a[2], b[2])
         IN  Rat(a[1] * (b[2] \div g) + b[1] * (a[2] \div g), (a[2] \div g) * b[2])

RNeg(a) == <<-a[1], a[2]>>

RSub(a, b) == RAdd(a, RNeg(b))

RMul(a, b) ==
    IF ~IsFinite(a) \/ ~IsFinite(b) THEN NonFinite
    ELSE LET g1 == GCD(Abs(a[1]), b[2])
             g2 == GCD(Abs(b[1]), a[2])
         IN  Rat((a[1] \div g1) * (b[1] \div g2), (a[2] \div g2) * (b[2] \div g1))

RDiv(a, b) ==
    IF ~IsFinite(a) \/ ~IsFinite(b) \/ b[1] = 0 THEN NonFinite
    ELSE RMul(a, Rat(b[2], b[1]))

RLt(a, b) == IsFinite(a) /\ IsFinite(b) /\ a[1] * b[2] < b[1] * a[2]

RLe(a, b) == IsFinite(a) /\ IsFinite(b) /\ a[1] * b[2] <= b[1] * a[2]

RGt(a, b) == RLt(b, a)

RGe(a, b) == RLe(b, a)

\* Math.max
RMax(a, b) ==
    IF ~IsFinite(a) \/ ~IsFinite(b) THEN NonFinite
    ELSE IF RLt(a, b) THEN b ELSE a

\* Math.pow for an exponent that is a whole number >= 0 (Math.pow(x, 0) is 1 for every x)
RECURSIVE PowN(_, _)
PowN(x, n) ==
    IF n = 0 THEN One
    ELSE IF n % 2 = 0 THEN LET h == PowN(x, n \div 2) IN RMul(h, h)
    ELSE RMul(x, PowN(x, n - 1))

Pow(x, e) == IF ~IsFinite(e) THEN NonFinite ELSE PowN(x, e[1])

----------------------------------------------------------------------------
(* calculator.ts: amortization *)

MonthlyMortgageDefaultYears == 30
MortgageBalanceDefaultYears == 30
MonthsPerYear == 12

\* calculateMonthlyMortgage without the special case of a zero rate
calculateMonthlyMortgage_NoZeroCase(p, rate, yrs) ==
    LET monthlyRate == RDiv(rate, R(12))
        numPayments == RMul(yrs, R(12))
    IN  RDiv(RMul(RMul(p, monthlyRate), Pow(RAdd(One, monthlyRate), numPayments)),
             RSub(Pow(RAdd(One, monthlyRate), numPayments), One))

\* calculateMonthlyMortgage(principal, annualRate, years)
calculateMonthlyMortgage(p, rate, yrs) ==
    LET monthlyRate == RDiv(rate, R(12))
        numPayments == RMul(yrs, R(12))
    IN  IF monthlyRate = Zero
        THEN RDiv(p, numPayments)
        ELSE RDiv(RMul(RMul(p, monthlyRate), Pow(RAdd(One, monthlyRate), numPayments)),
                  RSub(Pow(RAdd(One, monthlyRate), numPayments), One))

\* calculateMortgageBalance adding the payments made instead of subtracting them
calculateMortgageBalance_AddsPayments(p, rate, m, yrs) ==
    LET monthlyRate == RDiv(rate, R(12))
        monthlyPayment == calculateMonthlyMortgage(p, rate, yrs)
        bal == RAdd(RMul(p, Pow(RAdd(One, monthlyRate), m)),
                    RDiv(RMul(monthlyPayment, RSub(Pow(RAdd(One, monthlyRate), m), One)),
                         monthlyRate))
    IN  IF monthlyRate = Zero
        THEN RAdd(p, RMul(monthlyPayment, m))
        ELSE RMax(Zero, bal)

\* calculateMortgageBalance with the interest factor of the payments one month short
calculateMortgageBalance_ShortAnnuity(p, rate, m, yrs) ==
    LET monthlyRate == RDiv(rate, R(12))
        monthlyPayment == calculateMonthlyMortgage(p, rate, yrs)
        bal == RSub(RMul(p, Pow(RAdd(One, monthlyRate), RAdd(m, One))),
                    RDiv(RMul(monthlyPayment, RSub(Pow(RAdd(One, monthlyRate), m), One)),
                         monthlyRate))
    IN  IF monthlyRate = Zero
        THEN RSub(p, RMul(monthlyPayment, m))
        ELSE RMax(Zero, bal)

\* calculateMortgageBalance(principal, annualRate, monthsPaid, years)
calculateMortgageBalance(p, rate, m, yrs) ==
    LET monthlyRate == RDiv(rate, R(12))
        monthlyPayment == calculateMonthlyMortgage(p, rate, yrs)
        bal == RSub(RMul(p, Pow(RAdd(One, monthlyRate), m)),
                    RDiv(RMul(monthlyPayment, RSub(Pow(RAdd(One, monthlyRate), m), One)),
                         monthlyRate))
    IN  IF monthlyRate = Zero
        THEN RSub(p, RMul(monthlyPayment, m))
        ELSE RMax(Zero, bal)

\* calculateProp13Tax(purchasePrice, year, taxRate)
calculateProp13Tax(purchasePrice, yr, taxRate) ==
    LET assessedValue == RMul(purchasePrice, Pow(Rat(102, 100), yr))
    IN  RMul(assessedValue, taxRate)

----------------------------------------------------------------------------
(* calculator.ts: calculateNetWorth *)

downPaymentOf(in) == RMul(in.purchasePrice, RDiv(in.downPaymentPercent, R(100)))
loanAmountOf(in) == RSub(in.purchasePrice, downPaymentOf(in))
closingCostsOf(in) == RMul(in.purchasePrice, in.closingCostRate)

\* the payment amortized over the projection horizon instead of the fixed term
monthlyMortgageOf_HorizonTerm(in) ==
    calculateMonthlyMortgage(loanAmountOf(in), in.mortgageRate, R(years))

\* const monthlyMortgage = calculateMonthlyMortgage(loanAmount, inputs.mortgageRate)
monthlyMortgageOf(in) ==
    calculateMonthlyMortgage(loanAmountOf(in), in.mortgageRate, R(MonthlyMortgageDefaultYears))

getAnnualInsurance(in, homeValue) ==
    IF RGt(in.insuranceAnnual, Zero) THEN in.insuranceAnnual ELSE RMul(homeValue, Rat(35, 10000))

\* the monthly loop with the balance grown before the savings are added
RECURSIVE CompoundMonths_GrowFirst(_, _, _, _)
CompoundMonths_GrowFirst(inv, monthlySavings, returnRate, months) ==
    LET grown == RMul(inv, RAdd(One, RDiv(returnRate, R(12))))
        added == RAdd(grown, monthlySavings)
    IN  IF months = 0 THEN inv
        ELSE IF ~IsFinite(added) THEN NonFinite
        ELSE CompoundMonths_GrowFirst(added, monthlySavings, returnRate, months - 1)

\* the inner loop: for (month = 0; month < 12; month++) { add the savings, then grow }
RECURSIVE CompoundMonths(_, _, _, _)
CompoundMonths(inv, monthlySavings, returnRate, months) ==
    LET added == RAdd(inv, monthlySavings)
        grown == RMul(added, RAdd(One, RDiv(returnRate, R(12))))
    IN  IF months = 0 THEN inv
        ELSE IF ~IsFinite(grown) THEN NonFinite
        ELSE CompoundMonths(grown, monthlySavings, returnRate, months - 1)

\* the year-0 record with the renter's opening capital missing the closing costs
YearZeroRecord_NoClosing(in) ==
    LET initialHomeValue == in.purchasePrice
        initialSellingCosts == RMul(initialHomeValue, in.sellingCostRate)
    IN  [year |-> 0,
         buyNetWorth |-> RSub(downPaymentOf(in), initialSellingCosts),
         rentNetWorth |-> downPaymentOf(in),
         homeValue |-> initialHomeValue,
         mortgageBalance |-> loanAmountOf(in),
         homeEquity |-> downPaymentOf(in),
         rentingInvestments |-> downPaymentOf(in),
         annualRent |-> Zero,
         annualOwnershipCost |-> closingCostsOf(in)]

\* the record pushed before the loop
YearZeroRecord(in) ==
    LET initialHomeValue == in.purchasePrice
        initialSellingCosts == RMul(initialHomeValue, in.sellingCostRate)
    IN  [year |-> 0,
         buyNetWorth |-> RSub(RSub(downPaymentOf(in), initialSellingCosts), closingCostsOf(in)),
         rentNetWorth |-> RAdd(downPaymentOf(in), closingCostsOf(in)),
         homeValue |-> initialHomeValue,
         mortgageBalance |-> loanAmountOf(in),
         homeEquity |-> downPaymentOf(in),
         rentingInvestments |-> RAdd(downPaymentOf(in), closingCostsOf(in)),
         annualRent |-> Zero,
         annualOwnershipCost |-> closingCostsOf(in)]

\* the home value with simple instead of compound appreciation
homeValueAt_Linear(in, y) ==
    RMul(in.purchasePrice, RAdd(One, RMul(in.homeAppreciationRate, R(y))))

\* the home value appreciated one year short
homeValueAt_PrevYear(in, y) ==
    RMul(in.purchasePrice, Pow(RAdd(One, in.homeAppreciationRate), R(y - 1)))

\* const homeValue = purchasePrice * Math.pow(1 + homeAppreciationRate, year)
homeValueAt(in, y) ==
    RMul(in.purchasePrice, Pow(RAdd(One, in.homeAppreciationRate), R(y)))

\* const mortgageBalance = calculateMortgageBalance(loanAmount, mortgageRate, year * 12)
mortgageBalanceAt(in, y) ==
    calculateMortgageBalance(loanAmountOf(in), in.mortgageRate, R(y * 12),
                             R(MortgageBalanceDefaultYears))

\* the yearly cost with the property tax assessed on the current year
annualOwnershipCostAt_CurrentAssessment(in, y) ==
    LET homeValue == homeValueAt(in, y)
        annualMortgage == RMul(monthlyMortgageOf(in), R(12))
        annualPropertyTax == calculateProp13Tax(in.purchasePrice, R(y), in.propertyTaxRate)
        annualHoa == RMul(in.hoaMonthly, R(12))
        annualMaintenance == RMul(homeValue, in.maintenanceRate)
        annualInsurance == getAnnualInsurance(in, homeValue)
    IN  RAdd(RAdd(RAdd(RAdd(annualMortgage, annualPropertyTax), annualHoa),
                  annualMaintenance), annualInsurance)

\* annualMortgage + annualPropertyTax + annualHoa + annualMaintenance + annualInsurance
annualOwnershipCostAt(in, y) ==
    LET homeValue == homeValueAt(in, y)
        annualMortgage == RMul(monthlyMortgageOf(in), R(12))
        annualPropertyTax == calculateProp13Tax(in.purchasePrice, R(y - 1), in.propertyTaxRate)
        annualHoa == RMul(in.hoaMonthly, R(12))
        annualMaintenance == RMul(homeValue, in.maintenanceRate)
        annualInsurance == getAnnualInsurance(in, homeValue)
    IN  RAdd(RAdd(RAdd(RAdd(annualMortgage, annualPropertyTax), annualHoa),
                  annualMaintenance), annualInsurance)

\* the yearly record with the selling costs taken on the purchase price
YearRecord_SellingOnPrice(in, y, inv, rent) ==
    LET homeValue == homeValueAt(in, y)
        mortgageBalance == mortgageBalanceAt(in, y)
        annualOwnershipCost == annualOwnershipCostAt(in, y)
        homeEquity == RSub(homeValue, mortgageBalance)
        sellingCosts == RMul(in.purchasePrice, in.sellingCostRate)
        buyNetWorth == RSub(RSub(homeEquity, sellingCosts), closingCostsOf(in))
        annualRent == RMul(rent, R(12))
        monthlyOwnershipCost == RDiv(annualOwnershipCost, R(12))
        monthlySavings == RSub(monthlyOwnershipCost, rent)
        invested == CompoundMonths(inv, monthlySavings, in.investmentReturnRate, MonthsPerYear)
    IN  [year |-> y,
         buyNetWorth |-> buyNetWorth,
         rentNetWorth |-> invested,
         homeValue |-> homeValue,
         mortgageBalance |-> mortgageBalance,
         homeEquity |-> homeEquity,
         rentingInvestments |-> invested,
         annualRent |-> annualRent,
         annualOwnershipCost |-> annualOwnershipCost]

\* the record pushed by one iteration of the loop, from the locals at its start
YearRecord(in, y, inv, rent) ==
    LET homeValue == homeValueAt(in, y)
        mortgageBalance == mortgageBalanceAt(in, y)
        annualOwnershipCost == annualOwnershipCostAt(in, y)
        homeEquity == RSub(homeValue, mortgageBalance)
        sellingCosts == RMul(homeValue, in.sellingCostRate)
        buyNetWorth == RSub(RSub(homeEquity, sellingCosts), closingCostsOf(in))
        annualRent == RMul(rent, R(12))
        monthlyOwnershipCost == RDiv(annualOwnershipCost, R(12))
        monthlySavings == RSub(monthlyOwnershipCost, rent)
        invested == CompoundMonths(inv, monthlySavings, in.investmentReturnRate, MonthsPerYear)
    IN  [year |-> y,
         buyNetWorth |-> buyNetWorth,
         rentNetWorth |-> invested,
         homeValue |-> homeValue,
         mortgageBalance |-> mortgageBalance,
         homeEquity |-> homeEquity,
         rentingInvestments |-> invested,
         annualRent |-> annualRent,
         annualOwnershipCost |-> annualOwnershipCost]

\* the loop condition off by one
LoopContinues_Strict == year < years

\* the loop condition year <= years
LoopContinues == year <= years

\* entry of calculateNetWorth up to the push of the year-0 record
NetWorthSetup ==
    /\ pc = "netWorth.entry"
    /\ results' = <<YearZeroRecord(inputs)>>
    /\ rentingInvestments' = RAdd(downPaymentOf(inputs), closingCostsOf(inputs))
    /\ currentMonthlyRent' = inputs.monthlyRent
    /\ year' = 1
    /\ pc' = "netWorth.loop"
    /\ UNCHANGED <<inputs, years, mortgageVars, crossoverVars>>

\* the iteration with the rent grown before the record is built
NetWorthYear_RentGrownFirst ==
    /\ pc = "netWorth.loop"
    /\ LoopContinues
    /\ LET grownRent == RMul(currentMonthlyRent, RAdd(One, inputs.rentGrowthRate))
           rec == YearRecord(inputs, year, rentingInvestments, grownRent)
       IN  /\ results' = Append(results, rec)
           /\ rentingInvestments' = rec.rentingInvestments
           /\ currentMonthlyRent' = grownRent
    /\ year' = year + 1
    /\ UNCHANGED <<pc, inputs, years, mortgageVars, crossoverVars>>

\* one iteration of for (year = 1; year <= years; year++)
NetWorthYear ==
    /\ pc = "netWorth.loop"
    /\ LoopContinues
    /\ LET rec == YearRecord(inputs, year, rentingInvestments, currentMonthlyRent)
       IN  /\ results' = Append(results, rec)
           /\ rentingInvestments' = rec.rentingInvestments
    /\ currentMonthlyRent' = RMul(currentMonthlyRent, RAdd(One, inputs.rentGrowthRate))
    /\ year' = year + 1
    /\ UNCHANGED <<pc, inputs, years, mortgageVars, crossoverVars>>

\* loop exit and return results
NetWorthReturn ==
    /\ pc = "netWorth.loop"
    /\ ~LoopContinues
    /\ pc' = "netWorth.done"
    /\ UNCHANGED <<netWorthVars, mortgageVars, crossoverVars>>

----------------------------------------------------------------------------
(* The scenarios explored.  The values are chosen so that every             *)
(* intermediate result of the exact arithmetic fits TLC's 32-bit integers. *)

PurchasePrices == {R(-1000000), R(1000000)}
DownPaymentPercents == {R(20), R(100)}
MortgageRates == {R(0), R(-12)}
MonthlyRents == {R(4000)}
HomeAppreciationRates == {R(-2), R(-1), Rat(-1, 2), R(0), R(1)}
RentGrowthRates == {Rat(-1, 2), R(1)}
InvestmentReturnRates == {R(0), R(-12), R(-24)}
PropertyTaxRates == {Rat(1, 8)}
HoaMonthlies == {R(100)}
MaintenanceRates == {Rat(1, 100)}
ClosingCostRates == {R(0), Rat(25, 1000)}
SellingCostRates == {R(0), Rat(6, 100)}
InsuranceAnnuals == {R(-1200), R(0), R(1200)}

InputSpace ==
    [purchasePrice : PurchasePrices,
     downPaymentPercent : DownPaymentPercents,
     mortgageRate : MortgageRates,
     monthlyRent : MonthlyRents,
     homeAppreciationRate : HomeAppreciationRates,
     rentGrowthRate : RentGrowthRates,
     investmentReturnRate : InvestmentReturnRates,
     propertyTaxRate : PropertyTaxRates,
     hoaMonthly : HoaMonthlies,
     maintenanceRate : MaintenanceRates,
     closingCostRate : ClosingCostRates,
     sellingCostRate : SellingCostRates,
     insuranceAnnual : InsuranceAnnuals]

NoInputs == [purchasePrice |-> Zero]
NoRecords == <<>>

IdleMortgage ==
    /\ principal = Zero
    /\ annualRate = Zero
    /\ termYears = One
    /\ monthsPaid = 0
    /\ payment = Zero
    /\ balance = Zero
    /\ prevBalance = Zero

\* crossoverInfo.textContent: a message and the number it shows (0 when it shows none)
NoInfo == [text |-> "", arg |-> Zero]

IdleCrossover ==
    /\ data = NoRecords
    /\ crossover = <<>>
    /\ crossoverInfo = NoInfo

\* a call calculateNetWorth(inputs, years): by a test, or by init and updateChart with
\* what readInputs and readYears returned (readYears is parseInt of the slider's value,
\* any integer)
InitNetWorth ==
    /\ pc = "netWorth.entry"
    /\ inputs \in InputSpace
    /\ years \in (-1)..MaxYears
    /\ year = 0
    /\ results = NoRecords
    /\ rentingInvestments = Zero
    /\ currentMonthlyRent = Zero
    /\ IdleMortgage
    /\ IdleCrossover

----------------------------------------------------------------------------
(* Calls of the amortization functions on their own *)

Principals == {R(0), R(4095), R(360000)}
AnnualRates == {R(0), R(6), R(12), R(24)}
TermYears == {Rat(1, 4), Rat(1, 2), R(1), R(30)}

\* with interest, (1 + r)^m must fit TLC's 32-bit integers
InterestFits(p, rate, yrs) ==
    \/ rate = Zero
    \/ /\ RLe(yrs, One)
       /\ RLe(p, R(4095))
       /\ rate = R(12) \/ RLe(yrs, Rat(1, 2))

MortgageCases ==
    {c \in Principals \X AnnualRates \X TermYears : InterestFits(c[1], c[2], c[3])}

numPaymentsOf(yrs) == RMul(yrs, R(12))[1]

IdleNetWorth ==
    /\ inputs = NoInputs
    /\ years = 0
    /\ year = 0
    /\ results = NoRecords
    /\ rentingInvestments = Zero
    /\ currentMonthlyRent = Zero

InitMortgage ==
    /\ pc = "mortgage.entry"
    /\ \E c \in MortgageCases :
          /\ principal = c[1]
          /\ annualRate = c[2]
          /\ termYears = c[3]
    /\ monthsPaid = 0
    /\ payment = Zero
    /\ balance = Zero
    /\ prevBalance = Zero
    /\ IdleNetWorth
    /\ IdleCrossover

\* payment = calculateMonthlyMortgage(principal, annualRate, termYears)
MortgagePayment ==
    /\ pc = "mortgage.entry"
    /\ payment' = calculateMonthlyMortgage(principal, annualRate, termYears)
    /\ pc' = "mortgage.paid"
    /\ UNCHANGED <<principal, annualRate, termYears, monthsPaid, balance, prevBalance,
                   netWorthVars, crossoverVars>>

\* balance = calculateMortgageBalance(principal, annualRate, 0, termYears)
MortgageBalanceAtZero ==
    /\ pc = "mortgage.paid"
    /\ balance' = calculateMortgageBalance(principal, annualRate, R(monthsPaid), termYears)
    /\ pc' = "mortgage.balance"
    /\ UNCHANGED <<principal, annualRate, termYears, monthsPaid, payment, prevBalance,
                   netWorthVars, crossoverVars>>

\* balance = calculateMortgageBalance(principal, annualRate, monthsPaid + 1, termYears)
MortgageBalanceNextMonth ==
    /\ pc = "mortgage.balance"
    /\ monthsPaid < numPaymentsOf(termYears) + MaxExtraMonths
    /\ monthsPaid' = monthsPaid + 1
    /\ prevBalance' = balance
    /\ balance' = calculateMortgageBalance(principal, annualRate, R(monthsPaid + 1), termYears)
    /\ UNCHANGED <<pc, principal, annualRate, termYears, payment, netWorthVars, crossoverVars>>

----------------------------------------------------------------------------
(* calculator.ts: findCrossoverYear *)

\* the return value: <<>> is null, <<v>> the number v
Null == <<>>
Some(v) == <<v>>

\* the scan requiring buy strictly behind rent in the earlier record
RECURSIVE CrossoverFrom_StrictPrev(_, _)
CrossoverFrom_StrictPrev(d, i) ==
    IF ~(i < Len(d)) THEN Null
    ELSE LET prev == d[i]
             curr == d[i + 1]
             ratio == RDiv(RSub(prev.rentNetWorth, prev.buyNetWorth),
                           RSub(RAdd(RSub(curr.buyNetWorth, curr.rentNetWorth),
                                     prev.rentNetWorth),
                                prev.buyNetWorth))
         IN  IF RLt(prev.buyNetWorth, prev.rentNetWorth)
                /\ RGt(curr.buyNetWorth, curr.rentNetWorth)
             THEN Some(RAdd(R(prev.year), ratio))
             ELSE CrossoverFrom_StrictPrev(d, i + 1)

\* the scan measuring the interpolated offset from the later record's year
RECURSIVE CrossoverFrom_FromCurr(_, _)
CrossoverFrom_FromCurr(d, i) ==
    IF ~(i < Len(d)) THEN Null
    ELSE LET prev == d[i]
             curr == d[i + 1]
             ratio == RDiv(RSub(prev.rentNetWorth, prev.buyNetWorth),
                           RSub(RAdd(RSub(curr.buyNetWorth, curr.rentNetWorth),
                                     prev.rentNetWorth),
                                prev.buyNetWorth))
         IN  IF RLe(prev.buyNetWorth, prev.rentNetWorth)
                /\ RGt(curr.buyNetWorth, curr.rentNetWorth)
             THEN Some(RAdd(R(curr.year), ratio))
             ELSE CrossoverFrom_FromCurr(d, i + 1)

\* the scan that keeps going and returns the last transition it meets
RECURSIVE CrossoverFrom_Last(_, _)
CrossoverFrom_Last(d, i) ==
    IF ~(i < Len(d)) THEN Null
    ELSE LET prev == d[i]
             curr == d[i + 1]
             ratio == RDiv(RSub(prev.rentNetWorth, prev.buyNetWorth),
                           RSub(RAdd(RSub(curr.buyNetWorth, curr.rentNetWorth),
                                     prev.rentNetWorth),
                                prev.buyNetWorth))
             later == CrossoverFrom_Last(d, i + 1)
         IN  IF later # Null THEN later
             ELSE IF RLe(prev.buyNetWorth, prev.rentNetWorth)
                     /\ RGt(curr.buyNetWorth, curr.rentNetWorth)
                  THEN Some(RAdd(R(prev.year), ratio))
                  ELSE Null

\* the loop from index i on; data[i - 1] and data[i] of the code are d[i] and d[i + 1] here
RECURSIVE CrossoverFrom(_, _)
CrossoverFrom(d, i) ==
    IF ~(i < Len(d)) THEN Null
    ELSE LET prev == d[i]
             curr == d[i + 1]
             ratio == RDiv(RSub(prev.rentNetWorth, prev.buyNetWorth),
                           RSub(RAdd(RSub(curr.buyNetWorth, curr.rentNetWorth),
                                     prev.rentNetWorth),
                                prev.buyNetWorth))
         IN  IF RLe(prev.buyNetWorth, prev.rentNetWorth)
                /\ RGt(curr.buyNetWorth, curr.rentNetWorth)
             THEN Some(RAdd(R(prev.year), ratio))
             ELSE CrossoverFrom(d, i + 1)

\* the scan starting one pair late
findCrossoverYear_FromSecondPair(d) == CrossoverFrom(d, 2)

\* for (let i = 1; i < data.length; i++)
findCrossoverYear(d) == CrossoverFrom(d, 1)

Worths == {R(w) : w \in 0..MaxWorth}

\* record sequences of length n with year = index, as the tests build them
RecordSeqs(n) ==
    {[i \in 1..n |-> [year |-> i - 1, buyNetWorth |-> f[i][1], rentNetWorth |-> f[i][2]]] :
        f \in [1..n -> Worths \X Worths]}

InitCrossover ==
    /\ pc = "crossover.entry"
    /\ \E n \in 0..MaxLen : data \in RecordSeqs(n)
    /\ crossover = Null
    /\ crossoverInfo = NoInfo
    /\ IdleNetWorth
    /\ IdleMortgage

\* crossover = findCrossoverYear(data)
FindCrossover ==
    /\ pc = "crossover.entry"
    /\ crossover' = findCrossoverYear(data)
    /\ pc' = "crossover.done"
    /\ UNCHANGED <<data, crossoverInfo, netWorthVars, mortgageVars>>

----------------------------------------------------------------------------
(* inputs.ts: validateInputs; chart.ts: updateChart and the slider *)

\* validateInputs(inputs): the error messages, in the order they are pushed
validateInputs(in) ==
    (IF RLe(in.purchasePrice, Zero)
     THEN <<"Purchase price must be greater than 0">> ELSE <<>>)
    \o (IF RLt(in.downPaymentPercent, Zero) \/ RGt(in.downPaymentPercent, R(100))
        THEN <<"Down payment must be between 0% and 100%">> ELSE <<>>)
    \o (IF RLt(in.mortgageRate, Zero) \/ RGt(in.mortgageRate, Rat(25, 100))
        THEN <<"Mortgage rate seems unrealistic (should be between 0% and 25%)">> ELSE <<>>)
    \o (IF RLt(in.monthlyRent, Zero)
        THEN <<"Monthly rent cannot be negative">> ELSE <<>>)
    \o (IF RLt(in.homeAppreciationRate, Rat(-2, 10)) \/ RGt(in.homeAppreciationRate, Rat(3, 10))
        THEN <<"Home appreciation rate seems unrealistic (-20% to 30%)">> ELSE <<>>)
    \o (IF RLt(in.rentGrowthRate, Rat(-1, 10)) \/ RGt(in.rentGrowthRate, Rat(2, 10))
        THEN <<"Rent growth rate seems unrealistic (-10% to 20%)">> ELSE <<>>)

\* Number.prototype.toFixed(1): the nearest multiple of 1/10, halves away from zero
toFixed1(v) ==
    IF ~IsFinite(v) THEN NonFinite
    ELSE LET tenths == (20 * Abs(v[1]) + v[2]) \div (2 * v[2])
         IN  Rat((IF v[1] < 0 THEN -1 ELSE 1) * tenths, 10)

\* the text updateChart puts in crossoverInfo for the records d of a horizon yrs
crossoverMessage(d, yrs) ==
    LET found == findCrossoverYear(d)
        finalBuy == d[Len(d)].buyNetWorth
        finalRent == d[Len(d)].rentNetWorth
    IN  IF found # Null
        THEN [text |-> "Buying becomes better than renting at year", arg |-> toFixed1(found[1])]
        ELSE IF RGt(finalBuy, finalRent)
             THEN [text |-> "Buying is better from the start", arg |-> Zero]
             ELSE [text |-> "Renting remains better through year", arg |-> R(yrs)]

\* updateChart after const data = calculateNetWorth(inputs, years)
UpdateChartInfo ==
    /\ pc = "netWorth.done"
    /\ data' = results
    /\ crossover' = findCrossoverYear(results)
    /\ crossoverInfo' = crossoverMessage(results, years)
    /\ pc' = "updateChart.done"
    /\ UNCHANGED <<netWorthVars, mortgageVars>>

\* the slider's input listener: updateChart again, same fields, the slider's new value
SliderInput ==
    /\ pc = "updateChart.done"
    /\ years' \in (-1)..MaxYears
    /\ year' = 0
    /\ results' = NoRecords
    /\ rentingInvestments' = Zero
    /\ currentMonthlyRent' = Zero
    /\ pc' = "netWorth.entry"
    /\ UNCHANGED <<inputs, mortgageVars, crossoverVars>>

----------------------------------------------------------------------------
(* findCrossoverYear in binary floating point: every operation returns the  *)
(* exact result rounded to the nearest number with SignificandBits          *)
(* significant bits, ties to even (the exponent range is not limited)       *)

\* the nearest representable number to a/d, for integers a > 0 and d > 0
RECURSIVE FlPos(_, _)
FlPos(a, d) ==
    LET hi == PowN(R(2), SignificandBits)[1]
        lo == PowN(R(2), SignificandBits - 1)[1]
        q == a \div d
        r == a % d
    IN  IF a >= hi * d THEN RMul(R(2), FlPos(a, 2 * d))
        ELSE IF a < lo * d THEN RDiv(FlPos(2 * a, d), R(2))
        ELSE IF 2 * r > d \/ (2 * r = d /\ q % 2 = 1) THEN R(q + 1)
        ELSE R(q)

\* rounding of the exact result x of one operation
Fl(x) ==
    IF ~IsFinite(x) THEN NonFinite
    ELSE IF x[1] = 0 THEN Zero
    ELSE IF x[1] < 0 THEN RNeg(FlPos(-x[1], x[2]))
    ELSE FlPos(x[1], x[2])

FlAdd(a, b) == Fl(RAdd(a, b))
FlSub(a, b) == Fl(RSub(a, b))
FlDiv(a, b) == Fl(RDiv(a, b))

\* curr.buyNetWorth - curr.rentNetWorth + prev.rentNetWorth - prev.buyNetWorth,
\* evaluated left to right
crossoverDenominator(prev, curr) ==
    FlSub(FlAdd(FlSub(curr.buyNetWorth, curr.rentNetWorth), prev.rentNetWorth),
          prev.buyNetWorth)

\* the loop of findCrossoverYear from index i on, in floating point
RECURSIVE CrossoverFromRounded(_, _)
CrossoverFromRounded(d, i) ==
    IF ~(i < Len(d)) THEN Null
    ELSE LET prev == d[i]
             curr == d[i + 1]
             ratio == FlDiv(FlSub(prev.rentNetWorth, prev.buyNetWorth),
                            crossoverDenominator(prev, curr))
         IN  IF RLe(prev.buyNetWorth, prev.rentNetWorth)
                /\ RGt(curr.buyNetWorth, curr.rentNetWorth)
             THEN Some(FlAdd(R(prev.year), ratio))
             ELSE CrossoverFromRounded(d, i + 1)

\* net worths of different magnitudes, all representable: 0, 1 and 2^(SignificandBits+1)
RoundedWorths == {R(0), R(1), PowN(R(2), SignificandBits + 1)}

RoundedRecordSeqs(n) ==
    {[i \in 1..n |-> [year |-> i - 1, buyNetWorth |-> f[i][1], rentNetWorth |-> f[i][2]]] :
        f \in [1..n -> RoundedWorths \X RoundedWorths]}

InitRounded ==
    /\ pc = "crossover.entry"
    /\ \E n \in 0..MaxLen : data \in RoundedRecordSeqs(n)
    /\ crossover = Null
    /\ crossoverInfo = NoInfo
    /\ IdleNetWorth
    /\ IdleMortgage

\* crossover = findCrossoverYear(data), in floating point
FindCrossoverRounded ==
    /\ pc = "crossover.entry"
    /\ crossover' = CrossoverFromRounded(data, 1)
    /\ pc' = "crossover.done"
    /\ UNCHANGED <<data, crossoverInfo, netWorthVars, mortgageVars>>

----------------------------------------------------------------------------
(* A run is one call: calculateNetWorth, the amortization functions, or     *)
(* findCrossoverYear.                                                       *)

Init ==
    \/ InitNetWorth
    \/ InitMortgage
    \/ InitCrossover

Next ==
    \/ NetWorthSetup
    \/ NetWorthYear
    \/ NetWorthReturn
    \/ UpdateChartInfo
    \/ MortgagePayment
    \/ MortgageBalanceAtZero
    \/ MortgageBalanceNextMonth
    \/ FindCrossover

Spec == Init /\ [][Next]_vars

\* the page with the slider moved between updates, for a part of the scenarios
HorizonInputs ==
    {in \in InputSpace :
        /\ RGt(in.purchasePrice, Zero)
        /\ in.downPaymentPercent = R(20)
        /\ in.closingCostRate # Zero
        /\ in.sellingCostRate # Zero
        /\ in.insuranceAnnual = Zero}

InitHorizon ==
    /\ InitNetWorth
    /\ inputs \in HorizonInputs

NextHorizon ==
    \/ NetWorthSetup
    \/ NetWorthYear
    \/ NetWorthReturn
    \/ UpdateChartInfo
    \/ SliderInput

SpecHorizon == InitHorizon /\ [][NextHorizon]_vars

\* findCrossoverYear alone, on hand-built records, with its arithmetic rounded
NextRounded == FindCrossoverRounded

SpecRounded == InitRounded /\ [][NextRounded]_vars

----------------------------------------------------------------------------
(* Properties *)

\* v grown n times by the factor (1 + rate), one year at a time
RECURSIVE GrowBy(_, _, _)
GrowBy(v, rate, n) ==
    IF n = 0 THEN v ELSE RMul(GrowBy(v, rate, n - 1), RAdd(One, rate))

InNetWorth == pc \in {"netWorth.entry", "netWorth.loop", "netWorth.done"}
BalanceReturned == pc = "mortgage.balance"
PaymentReturned == pc \in {"mortgage.paid", "mortgage.balance"}
termMonths == RMul(termYears, R(12))

\* C1: calculateNetWorth(inputs, years) returns exactly years + 1 records and the
\* record at index i has year = i; for years = 0 only the year-0 record.
C1_RecordCount ==
    (pc = "netWorth.done" /\ years >= 0) =>
        /\ Len(results) = years + 1
        /\ \A i \in 1..Len(results) : results[i].year = i - 1
        /\ years = 0 => results = <<YearZeroRecord(inputs)>>

C1_Witness ==
    /\ pc = "netWorth.done"
    /\ years >= 2
    /\ Len(results) = years + 1

\* C2: the year-0 record has buyNetWorth = downPayment - purchasePrice*sellingCostRate
\* - closingCosts, rentNetWorth = downPayment + closingCosts, homeValue = purchasePrice,
\* mortgageBalance = purchasePrice - downPayment, homeEquity = downPayment,
\* annualRent = 0 and annualOwnershipCost = closingCosts, with downPayment =
\* purchasePrice*downPaymentPercent/100 and closingCosts = purchasePrice*closingCostRate.
C2_YearZero ==
    Len(results) >= 1 =>
        LET price == inputs.purchasePrice
            downPayment == RDiv(RMul(price, inputs.downPaymentPercent), R(100))
            closingCosts == RMul(price, inputs.closingCostRate)
            r0 == results[1]
        IN  /\ r0.buyNetWorth =
                   RSub(downPayment, RAdd(RMul(price, inputs.sellingCostRate), closingCosts))
            /\ r0.rentNetWorth = RAdd(downPayment, closingCosts)
            /\ r0.homeValue = price
            /\ r0.mortgageBalance = RSub(price, downPayment)
            /\ r0.homeEquity = downPayment
            /\ r0.annualRent = Zero
            /\ r0.annualOwnershipCost = closingCosts

C2_Witness ==
    /\ pc = "netWorth.done"
    /\ years >= 1
    /\ inputs.closingCostRate # Zero
    /\ inputs.sellingCostRate # Zero
    /\ inputs.downPaymentPercent = R(20)

\* C3: the balance floors at zero: for principal >= 0, annualRate >= 0 (zero included)
\* and monthsPaid >= 0, calculateMortgageBalance is never negative and is 0 for every
\* monthsPaid >= years*12; so every record of calculateNetWorth has mortgageBalance >= 0,
\* and mortgageBalance = 0 for every year >= 30.
C3_BalanceFloorsAtZero ==
    /\ (BalanceReturned /\ RGe(principal, Zero) /\ RGe(annualRate, Zero)) =>
           /\ RGe(balance, Zero)
           /\ RGe(R(monthsPaid), termMonths) => balance = Zero
    /\ \A i \in 1..Len(results) :
           /\ RGe(results[i].mortgageBalance, Zero)
           /\ results[i].year >= MortgageBalanceDefaultYears => results[i].mortgageBalance = Zero

\* C4: calculateMortgageBalance is non-increasing in monthsPaid for principal >= 0 and
\* annualRate >= 0; in the records of calculateNetWorth mortgageBalance at year y is <=
\* that at year y-1, and strictly smaller while y <= 30 and the loan amount is positive.
C4_BalanceNonIncreasing ==
    /\ (BalanceReturned /\ monthsPaid >= 1 /\ RGe(principal, Zero) /\ RGe(annualRate, Zero)) =>
           RLe(balance, prevBalance)
    /\ InNetWorth =>
           \A i \in 2..Len(results) :
               (RGe(loanAmountOf(inputs), Zero) /\ RGe(inputs.mortgageRate, Zero)) =>
                   /\ RLe(results[i].mortgageBalance, results[i - 1].mortgageBalance)
                   /\ (results[i].year <= MortgageBalanceDefaultYears
                       /\ RGt(loanAmountOf(inputs), Zero)) =>
                          RLt(results[i].mortgageBalance, results[i - 1].mortgageBalance)

C4_Witness ==
    /\ BalanceReturned
    /\ RGt(annualRate, Zero)
    /\ RGt(principal, Zero)
    /\ monthsPaid >= 2
    /\ RLt(balance, prevBalance)
    /\ RLt(Zero, balance)

\* C5: for principal P >= 0, rate r > 0 and a term of n years,
\* calculateMortgageBalance(P, r, 0, n) is exactly P and
\* calculateMortgageBalance(P, r, n*12, n) is 0.
C5_BalanceEndpoints ==
    (BalanceReturned /\ RGe(principal, Zero) /\ RGt(annualRate, Zero)) =>
        /\ monthsPaid = 0 => balance = principal
        /\ R(monthsPaid) = termMonths => balance = Zero

C5_Witness ==
    /\ BalanceReturned
    /\ RGt(principal, Zero)
    /\ RGt(annualRate, Zero)
    /\ R(monthsPaid) = termMonths
    /\ balance = Zero
    /\ RGt(prevBalance, Zero)

\* C6: with annualRate = 0 and a term of n > 0 years, calculateMonthlyMortgage(P, 0, n)
\* is exactly P/(n*12) and calculateMortgageBalance(P, 0, m, n) is P - (P/(n*12))*m;
\* no division by zero happens (the results are finite).
C6_ZeroRate ==
    (annualRate = Zero /\ RGt(termYears, Zero)) =>
        /\ PaymentReturned =>
               /\ payment = RDiv(principal, termMonths)
               /\ IsFinite(payment)
        /\ BalanceReturned =>
               /\ balance = RSub(principal, RMul(RDiv(principal, termMonths), R(monthsPaid)))
               /\ IsFinite(balance)

C6_Witness ==
    /\ BalanceReturned
    /\ annualRate = Zero
    /\ principal = R(360000)
    /\ termYears = R(30)
    /\ payment = R(1000)
    /\ monthsPaid = 12
    /\ balance = R(348000)

\* C7: in every record with year y, homeValue = purchasePrice * (1 + homeAppreciationRate)^y.
C7_HomeValue ==
    \A i \in 1..Len(results) :
        results[i].homeValue =
            GrowBy(inputs.purchasePrice, inputs.homeAppreciationRate, results[i].year)

C7_Witness ==
    /\ InNetWorth
    /\ Len(results) >= 3
    /\ inputs.homeAppreciationRate = Rat(-1, 2)
    /\ results[3].homeValue = RDiv(inputs.purchasePrice, R(4))

\* the direction of homeValue between consecutive records, for the rates of the set A
HomeValueFollowsRate(DecreasingRate(_)) ==
    (InNetWorth /\ RGt(inputs.purchasePrice, Zero)) =>
        \A i \in 2..Len(results) :
            LET rate == inputs.homeAppreciationRate
                before == results[i - 1].homeValue
                after == results[i].homeValue
            IN  /\ RGt(rate, Zero) => RGt(after, before)
                /\ rate = Zero => after = before
                /\ DecreasingRate(rate) => RLt(after, before)

AnyNegativeRate(rate) == RLt(rate, Zero)
NegativeRateAboveMinusOne(rate) == RLt(rate, Zero) /\ RGt(rate, R(-1))

\* C8 as stated: for purchasePrice > 0 and consecutive records, homeValue strictly
\* increases when homeAppreciationRate > 0, is unchanged when it is 0, and strictly
\* decreases for every negative rate.
C8_HomeValueMonotoneAnyRate == HomeValueFollowsRate(AnyNegativeRate)

\* C8 amended: for purchasePrice > 0 and consecutive records, homeValue strictly
\* increases when homeAppreciationRate > 0, is unchanged when it is 0, and strictly
\* decreases when -1 < homeAppreciationRate < 0.
C8_HomeValueMonotone == HomeValueFollowsRate(NegativeRateAboveMinusOne)

C8_Witness ==
    /\ InNetWorth
    /\ Len(results) >= 3
    /\ inputs.homeAppreciationRate = Rat(-1, 2)
    /\ RLt(results[3].homeValue, results[2].homeValue)
    /\ RLt(results[2].homeValue, results[1].homeValue)

\* C9: in the record for year y >= 1, annualRent = 12 * monthlyRent *
\* (1 + rentGrowthRate)^(y-1): year 1 uses the base rent, the growth applies to the
\* following year only.
C9_AnnualRent ==
    \A i \in 2..Len(results) :
        results[i].annualRent =
            RMul(R(12), GrowBy(inputs.monthlyRent, inputs.rentGrowthRate, results[i].year - 1))

C9_Witness ==
    /\ InNetWorth
    /\ Len(results) >= 3
    /\ inputs.rentGrowthRate = R(1)
    /\ results[2].annualRent = RMul(R(12), inputs.monthlyRent)
    /\ results[3].annualRent = RMul(R(24), inputs.monthlyRent)

\* buy overtakes rent between two consecutive records
Transition(prev, curr) ==
    /\ RLe(prev.buyNetWorth, prev.rentNetWorth)
    /\ RGt(curr.buyNetWorth, curr.rentNetWorth)

HasTransition(d) == \E i \in 1..(Len(d) - 1) : Transition(d[i], d[i + 1])

\* C10: findCrossoverYear(records) returns a value if and only if some consecutive pair
\* has prev.buyNetWorth <= prev.rentNetWorth and curr.buyNetWorth > curr.rentNetWorth;
\* it returns null otherwise: when rent is ahead in every record, when buy is ahead in
\* every record from year 0 on, and for sequences of length 0 or 1.
C10_CrossoverIff ==
    pc = "crossover.done" =>
        /\ crossover # Null <=> HasTransition(data)
        /\ (\A i \in 1..Len(data) : RGe(data[i].rentNetWorth, data[i].buyNetWorth)) =>
               crossover = Null
        /\ (\A i \in 1..Len(data) : RGt(data[i].buyNetWorth, data[i].rentNetWorth)) =>
               crossover = Null
        /\ Len(data) <= 1 => crossover = Null

C10_Witness ==
    /\ pc = "crossover.done"
    /\ Len(data) = 3
    /\ data[1].buyNetWorth = data[1].rentNetWorth
    /\ ~Transition(data[1], data[2])
    /\ data[2].buyNetWorth = data[2].rentNetWorth
    /\ Transition(data[2], data[3])
    /\ crossover # Null

\* states in which findCrossoverYear has returned for the records in data
CrossoverReturned == pc \in {"crossover.done", "updateChart.done"}

\* index of the earlier record of the first transition of d
FirstTransition(d) ==
    CHOOSE i \in 1..(Len(d) - 1) :
        /\ Transition(d[i], d[i + 1])
        /\ \A j \in 1..(i - 1) : ~Transition(d[j], d[j + 1])

C12_FirstTransitionOnly ==
    (CrossoverReturned /\ HasTransition(data)) =>
        LET i == FirstTransition(data)
            prev == data[i]
            curr == data[i + 1]
        IN  /\ crossover =
                   Some(RAdd(R(prev.year),
                             RDiv(RSub(prev.rentNetWorth, prev.buyNetWorth),
                                  RSub(RSub(curr.buyNetWorth, prev.buyNetWorth),
                                       RSub(curr.rentNetWorth, prev.rentNetWorth)))))
            /\ crossover = findCrossoverYear(SubSeq(data, 1, i + 1))

C12_Witness ==
    /\ pc = "crossover.done"
    /\ Len(data) = 4
    /\ Transition(data[1], data[2])
    /\ Transition(data[3], data[4])
    /\ crossover # Null
    /\ RLt(crossover[1], R(1))
    /\ crossover # findCrossoverYear(SubSeq(data, 3, 4))

\* C13 as stated: whenever findCrossoverYear returns no value, either buyNetWorth >
\* rentNetWorth in every record, or buyNetWorth <= rentNetWorth in every record.
C13_OneDominates ==
    (CrossoverReturned /\ crossover = Null) =>
        \/ \A i \in 1..Len(data) : RGt(data[i].buyNetWorth, data[i].rentNetWorth)
        \/ \A i \in 1..Len(data) : RLe(data[i].buyNetWorth, data[i].rentNetWorth)

\* C13: whenever findCrossoverYear returns no value, buy never overtakes rent: there is
\* a position k such that buyNetWorth > rentNetWorth in every record before k and
\* buyNetWorth <= rentNetWorth in every record from k on.
C13_NeverOvertakes ==
    (CrossoverReturned /\ crossover = Null) =>
        \E k \in 1..(Len(data) + 1) :
            /\ \A i \in 1..(k - 1) : RGt(data[i].buyNetWorth, data[i].rentNetWorth)
            /\ \A i \in k..Len(data) : RLe(data[i].buyNetWorth, data[i].rentNetWorth)

C13_Witness ==
    /\ pc = "crossover.done"
    /\ crossover = Null
    /\ Len(data) = 3
    /\ RGt(data[1].buyNetWorth, data[1].rentNetWorth)
    /\ RGt(data[2].buyNetWorth, data[2].rentNetWorth)
    /\ RLt(data[3].buyNetWorth, data[3].rentNetWorth)

\* C14: a request with years < 0 fails or is guarded: calculateNetWorth never returns a
\* record sequence for years < 0 (it raises, or no caller lets such a value through).
C14_NegativeYearsRejected ==
    pc \in {"netWorth.done", "updateChart.done"} => years >= 0

\* C19: calculateNetWorth is not run on inputs for which validateInputs returns errors.
C19_ValidatedBeforeSimulation ==
    pc \in {"netWorth.loop", "netWorth.done", "updateChart.done"} =>
        validateInputs(inputs) = << >>

\* C20: when findCrossoverYear returns null for the computed records, updateChart shows
\* "Buying is better from the start" if and only if buyNetWorth > rentNetWorth in the
\* year-0 record, and shows "Renting remains better through year N" only when
\* rentNetWorth >= buyNetWorth in every record.
C20_FirstRecordDecides ==
    (pc = "updateChart.done" /\ crossover = Null) =>
        /\ crossoverInfo.text = "Buying is better from the start"
               <=> RGt(data[1].buyNetWorth, data[1].rentNetWorth)
        /\ crossoverInfo.text = "Renting remains better through year" =>
               \A i \in 1..Len(data) : RGe(data[i].rentNetWorth, data[i].buyNetWorth)

\* the ownership cost of the record rec by the stated formula, given its insurance term
StatedOwnershipCost(rec, insurance) ==
    LET loan == RSub(inputs.purchasePrice,
                     RMul(inputs.purchasePrice, RDiv(inputs.downPaymentPercent, R(100))))
        monthlyMortgage ==
            calculateMonthlyMortgage(loan, inputs.mortgageRate, R(MonthlyMortgageDefaultYears))
    IN  RAdd(RAdd(RAdd(RAdd(RMul(R(12), monthlyMortgage),
                            RMul(GrowBy(inputs.purchasePrice, Rat(2, 100), rec.year - 1),
                                 inputs.propertyTaxRate)),
                       RMul(R(12), inputs.hoaMonthly)),
                  RMul(rec.homeValue, inputs.maintenanceRate)),
             insurance)

C17_EquityAndBuyNetWorth ==
    \A i \in 1..Len(results) :
        /\ results[i].homeEquity = RSub(results[i].homeValue, results[i].mortgageBalance)
        /\ results[i].buyNetWorth =
               RSub(RSub(results[i].homeEquity,
                         RMul(results[i].homeValue, inputs.sellingCostRate)),
                    RMul(inputs.purchasePrice, inputs.closingCostRate))

C17_Witness ==
    /\ InNetWorth
    /\ Len(results) >= 3
    /\ inputs.sellingCostRate # Zero
    /\ inputs.closingCostRate # Zero
    /\ results[3].homeValue # inputs.purchasePrice
    /\ results[3].mortgageBalance # Zero
    /\ results[3].buyNetWorth # results[1].buyNetWorth
    /\ results[1].homeEquity = downPaymentOf(inputs)

\* n monthly steps on balance b, each adding s and then multiplying by g
RECURSIVE AddThenGrow(_, _, _, _)
AddThenGrow(b, s, g, n) ==
    IF n = 0 THEN b ELSE RMul(RAdd(AddThenGrow(b, s, g, n - 1), s), g)

\* n monthly steps on balance b, each multiplying by g and then adding s
RECURSIVE GrowThenAdd(_, _, _, _)
GrowThenAdd(b, s, g, n) ==
    IF n = 0 THEN b ELSE RAdd(RMul(GrowThenAdd(b, s, g, n - 1), g), s)

\* s of year y: annualOwnershipCost_y / 12 - monthly rent of year y
SavingsOf(rec) == RSub(RDiv(rec.annualOwnershipCost, R(12)), RDiv(rec.annualRent, R(12)))

MonthlyFactor == RAdd(One, RDiv(inputs.investmentReturnRate, R(12)))

\* rentNetWorth_y comes from rentNetWorth_(y-1) by 12 add-then-grow steps, and with
\* investmentReturnRate = 0 the yearly change is annualOwnershipCost_y - annualRent_y
TwelveAddThenGrowSteps ==
    \A i \in 2..Len(results) :
        /\ results[i].rentNetWorth = results[i].rentingInvestments
        /\ results[i].rentNetWorth =
               AddThenGrow(results[i - 1].rentNetWorth, SavingsOf(results[i]),
                           MonthlyFactor, 12)
        /\ inputs.investmentReturnRate = Zero =>
               RSub(results[i].rentNetWorth, results[i - 1].rentNetWorth) =
                   RSub(results[i].annualOwnershipCost, results[i].annualRent)

\* C18 as stated: rentNetWorth_y is obtained from rentNetWorth_(y-1) by 12 add-then-grow
\* steps, and the result differs from the grow-then-add order whenever s != 0 and
\* investmentReturnRate != 0.
C18_OrderMattersWheneverNonZero ==
    /\ TwelveAddThenGrowSteps
    /\ \A i \in 2..Len(results) :
           (SavingsOf(results[i]) # Zero /\ inputs.investmentReturnRate # Zero) =>
               results[i].rentNetWorth #
                   GrowThenAdd(results[i - 1].rentNetWorth, SavingsOf(results[i]),
                               MonthlyFactor, 12)

\* C18: rentNetWorth_y (equal to rentingInvestments_y) is obtained from
\* rentNetWorth_(y-1) by 12 steps that add s and then multiply by
\* 1 + investmentReturnRate/12; with investmentReturnRate = 0 the yearly change is
\* annualOwnershipCost_y - annualRent_y; the result differs from the grow-then-add order
\* whenever s != 0 and the monthly factor is neither 1 nor -1 (investmentReturnRate
\* neither 0 nor -24), and equals it when the factor is 1 or -1.
C18_AddThenGrow ==
    /\ TwelveAddThenGrowSteps
    /\ \A i \in 2..Len(results) :
           LET other == GrowThenAdd(results[i - 1].rentNetWorth, SavingsOf(results[i]),
                                    MonthlyFactor, 12)
           IN  /\ (SavingsOf(results[i]) # Zero /\ MonthlyFactor \notin {One, R(-1)}) =>
                      results[i].rentNetWorth # other
               /\ MonthlyFactor \in {One, R(-1)} => results[i].rentNetWorth = other

C18_Witness ==
    /\ InNetWorth
    /\ Len(results) >= 3
    /\ inputs.investmentReturnRate = Zero
    /\ SavingsOf(results[3]) # Zero
    /\ SavingsOf(results[3]) # SavingsOf(results[2])
    /\ results[3].rentNetWorth =
           RAdd(results[2].rentNetWorth, RMul(R(12), SavingsOf(results[3])))

\* the shorter of two record sequences is the beginning of the longer
OnePrefixesOther(a, b) ==
    IF Len(a) <= Len(b) THEN a = SubSeq(b, 1, Len(a)) ELSE b = SubSeq(a, 1, Len(b))

\* C15: the amortization term is 30 years whatever the horizon: for the same inputs,
\* the records of a shorter horizon are exactly the first records of a longer one, so
\* moving the horizon changes no field of a year both runs contain, and every year's
\* balance is the 30-year balance after 12*y payments.
C15_HorizonPrefix ==
    pc = "netWorth.done" =>
        /\ Len(data) > 0 => OnePrefixesOther(data, results)
        /\ \A i \in 2..Len(results) :
               results[i].mortgageBalance =
                   calculateMortgageBalance(loanAmountOf(inputs), inputs.mortgageRate,
                                            R(12 * results[i].year), R(30))

C15_Witness ==
    /\ pc = "netWorth.done"
    /\ inputs.mortgageRate = Zero
    /\ Len(data) = 2
    /\ Len(results) = 4
    /\ data[2] = results[2]
    /\ results[2].mortgageBalance # Zero
    /\ results[4].mortgageBalance # results[2].mortgageBalance

\* C21: findCrossoverYear never divides by zero: whenever the transition condition
\* holds for a pair, the denominator the code computes is strictly positive, the
\* returned value is finite and not smaller than prev.year; no value (so no division)
\* comes from pairs that do not satisfy the condition.
C21_NeverDividesByZero ==
    pc = "crossover.done" =>
        /\ \A i \in 1..(Len(data) - 1) :
               Transition(data[i], data[i + 1]) =>
                   RGt(crossoverDenominator(data[i], data[i + 1]), Zero)
        /\ HasTransition(data) =>
               /\ crossover # Null
               /\ IsFinite(crossover[1])
               /\ RGe(crossover[1], R(data[FirstTransition(data)].year))
        /\ ~HasTransition(data) => crossover = Null

====
